---- MODULE Spec2Model ----
(***************************************************************************)
(* Block proposer reward computation of the beacon node                    *)
(* (packages/beacon-node/src/chain/rewards/blockRewards.ts).               *)
(*                                                                         *)
(* computeBlockRewards(block, state) is an async function without any      *)
(* await.  A call is modelled in two steps that follow the statement       *)
(* order of the source: Invoke (fork dispatch and the collaborator's write *)
(* to state.proposerRewards.attestations) and Return (the read-back of the *)
(* accumulator, the three other sub-calculators and the aggregation).      *)
(* The JavaScript thread is a token: a call that has started keeps it      *)
(* until it reaches an await point or settles.                             *)
(*                                                                         *)
(* Numbers: rewards and balances are non-negative integers; the            *)
(* syncProposerReward (a JS number that the code floors) is a rational     *)
(* num/den.                                                                *)
(***************************************************************************)
EXTENDS Integers, Sequences, FiniteSets, TLC

\* ---------------------------------------------------------------- bounds
MaxSlot == 1
SyncCommitteeSize == 2
MaxBodySize == 5
MaxCallBodySize == 1
AltairForkSlot == 1

\* ------------------------------------------------------------- constants
\* imported from @lodestar/params (the value of the mainnet preset)
WHISTLEBLOWER_REWARD_QUOTIENT == 512

\* the JavaScript value undefined
undefined == [undefined |-> TRUE]
NoThread == 0
Calls == {1, 2}

Validators == {0, 1}
Slots == 0..MaxSlot
\* effective balances that are not multiples of the quotient
BalanceValues == {300, 1000}
\* syncProposerReward values: 0, 1.5 and 2
SyncProposerRewardValues ==
  {[num |-> 0, den |-> 1], [num |-> 3, den |-> 2], [num |-> 2, den |-> 1]}
\* an attestation is represented by the proposer reward the attestation
\* processing accrues for it
Attestations == {1, 2}

\* --------------------------------------------------------------- helpers
RECURSIVE SumSeq(_)
SumSeq(s) == IF s = <<>> THEN 0 ELSE Head(s) + SumSeq(Tail(s))

RECURSIVE SortedSeq(_)
SortedSeq(S) ==
  IF S = {} THEN <<>>
  ELSE LET m == CHOOSE x \in S : \A y \in S : x <= y
       IN <<m>> \o SortedSeq(S \ {m})

\* Math.floor of a non-negative rational
MathFloor(r) == r.num \div r.den

\* BitArray.getTrueBitIndexes()
getTrueBitIndexes(bits) ==
  SortedSeq({i \in 1..Len(bits) : bits[i]})

\* ------------------------------------------------------ the input domain
ProposerSlashings ==
  {[signedHeader1 |-> [message |-> [proposerIndex |-> v]]] : v \in Validators}

AttestingIndexSets == (SUBSET Validators) \ {{}}

AttesterSlashings ==
  {[attestation1 |-> [attestingIndices |-> a1],
    attestation2 |-> [attestingIndices |-> a2]] :
      a1 \in AttestingIndexSets, a2 \in AttestingIndexSets}

SyncAggregates ==
  {[syncCommitteeBits |-> bits] : bits \in [1..SyncCommitteeSize -> BOOLEAN]}

\* size of a block body: attestations, proposer slashings, attesting indices
\* carried by attester slashings and set sync-committee bits
AttesterSlashingSize(s) ==
  Cardinality(s.attestation1.attestingIndices)
    + Cardinality(s.attestation2.attestingIndices)

RECURSIVE AttesterSlashingLists(_)
AttesterSlashingLists(m) ==
  {<<>>} \cup
  UNION {{<<s>> \o rest : rest \in AttesterSlashingLists(m - AttesterSlashingSize(s))} :
           s \in {x \in AttesterSlashings : AttesterSlashingSize(x) <= m}}

RECURSIVE SlashingsSize(_)
SlashingsSize(l) ==
  IF l = <<>> THEN 0 ELSE AttesterSlashingSize(Head(l)) + SlashingsSize(Tail(l))

ListsUpTo(S, m) == UNION {[1..k -> S] : k \in 0..m}

SyncSize(y) ==
  IF y = undefined THEN 0 ELSE Cardinality({i \in 1..Len(y.syncCommitteeBits) : y.syncCommitteeBits[i]})

BodiesOfSize(m) ==
  UNION {UNION {UNION {
    {[attestations |-> a, syncAggregate |-> y, proposerSlashings |-> p,
      attesterSlashings |-> x] :
        y \in {z \in SyncAggregates \cup {undefined} :
                 SyncSize(z) <= m - Len(a) - Len(p) - SlashingsSize(x)}}
    : x \in AttesterSlashingLists(m - Len(a) - Len(p))}
    : p \in ListsUpTo(ProposerSlashings, m - Len(a))}
    : a \in ListsUpTo(Attestations, m)}

BlocksOfSize(m) ==
  {[slot |-> s, proposerIndex |-> v, body |-> b] :
     s \in Slots, v \in Validators, b \in BodiesOfSize(m)}

RewardBlocks == BlocksOfSize(MaxBodySize)
CallBlocks == BlocksOfSize(MaxCallBodySize)

\* ------------------------------------------------------------- the state
VARIABLES
  state,    \* the pre-state object shared by the calls
  thread,   \* the call that holds the JavaScript thread, or NoThread
  pc,       \* per call: "idle", "processed", "fulfilled" or "rejected"
  block,    \* per call: the block argument
  result,   \* per call: the BlockRewards the promise is fulfilled with
  error     \* per call: the Error the promise is rejected with

vars == <<state, thread, pc, block, result, error>>

PreStates ==
  {[config |-> [ALTAIR_FORK_SLOT |-> AltairForkSlot],
    validators |-> [v \in Validators |-> [effectiveBalance |-> bal[v]]],
    epochCtx |-> [syncProposerReward |-> r],
    proposerRewards |-> [attestations |-> 0]] :
      bal \in [Validators -> BalanceValues], r \in SyncProposerRewardValues}

\* ------------------------------------------------- external collaborators
\* state.config.getForkName(slot)
getForkName(config, slot) ==
  IF slot < config.ALTAIR_FORK_SLOT THEN "phase0" ELSE "altair"

\* state.config.getForkSeq(slot)
getForkSeq(config, slot) ==
  IF slot < config.ALTAIR_FORK_SLOT THEN 0 ELSE 1

\* processAttestationsAltair(fork, state, attestations, verifySignature):
\* adds the proposer reward of the attestations to the accumulator
processAttestationsAltair(fork, st, attestations, verifySignature) ==
  [st EXCEPT !.proposerRewards.attestations = @ + SumSeq(attestations)]

\* getAttesterSlashableIndices(attesterSlashing): the sorted intersection
getAttesterSlashableIndices(attesterSlashing) ==
  SortedSeq(attesterSlashing.attestation1.attestingIndices
              \cap attesterSlashing.attestation2.attestingIndices)

\* --------------------------------------------------- the sub-calculators
\* Every calculator returns the value it computes and the state object as
\* it leaves it.

UnsupportedFork ==
  "Unsupported fork! Block attestation reward calculation is not yet available in phase0"

\* mutant: the attestations are processed before the error is thrown
Phase0ProcessesThenThrows(blk, st) ==
  [threw |-> TRUE, message |-> UnsupportedFork,
   state |-> processAttestationsAltair(0, st, blk.body.attestations, FALSE)]

computeBlockAttestationRewardPhase0(blk, st) ==
  [threw |-> TRUE, message |-> UnsupportedFork, state |-> st]

\* mutant: the accumulator is zeroed before the collaborator is called
AltairProcessResetsAccumulator(blk, st) ==
  [threw |-> FALSE, message |-> "",
   state |-> processAttestationsAltair(
               getForkSeq(st.config, blk.slot),
               [st EXCEPT !.proposerRewards.attestations = 0],
               blk.body.attestations, FALSE)]

\* computeBlockAttestationRewardAltair up to the collaborator call
attestationRewardAltairProcess(blk, st) ==
  LET fork == getForkSeq(st.config, blk.slot)
      attestations == blk.body.attestations
  IN [threw |-> FALSE, message |-> "",
      state |-> processAttestationsAltair(fork, st, attestations, FALSE)]

\* computeBlockAttestationRewardAltair: the return statement
attestationRewardAltairReturn(st) ==
  [value |-> st.proposerRewards.attestations, state |-> st]

\* mutant: the fork is not inspected, every block takes the Altair path
DispatchAlwaysAltair(blk, st) ==
  [threw |-> FALSE, message |-> "",
   state |-> processAttestationsAltair(
               getForkSeq(st.config, blk.slot), st, blk.body.attestations, FALSE)]

\* the conditional expression of computeBlockRewards
blockAttestationRewardDispatch(blk, st) ==
  LET fork == getForkName(st.config, blk.slot)
  IN IF fork = "phase0"
     THEN computeBlockAttestationRewardPhase0(blk, st)
     ELSE attestationRewardAltairProcess(blk, st)

\* mutant: the product is floored instead of the constant
SyncRewardFloorsProduct(blk, st) ==
  IF blk.body.syncAggregate # undefined
  THEN LET syncCommitteeBits == blk.body.syncAggregate.syncCommitteeBits
           syncProposerReward == st.epochCtx.syncProposerReward
       IN [value |-> (Len(getTrueBitIndexes(syncCommitteeBits)) * syncProposerReward.num)
                       \div syncProposerReward.den,
           state |-> st]
  ELSE [value |-> 0, state |-> st]

\* mutant: the bitfield's length is counted instead of its set bits
SyncRewardCountsAllBits(blk, st) ==
  IF blk.body.syncAggregate # undefined
  THEN [value |-> Len(blk.body.syncAggregate.syncCommitteeBits)
                    * MathFloor(st.epochCtx.syncProposerReward),
        state |-> st]
  ELSE [value |-> 0, state |-> st]

computeSyncAggregateReward(blk, st) ==
  IF blk.body.syncAggregate # undefined
  THEN LET syncCommitteeBits == blk.body.syncAggregate.syncCommitteeBits
           syncProposerReward == st.epochCtx.syncProposerReward
       IN [value |-> Len(getTrueBitIndexes(syncCommitteeBits)) * MathFloor(syncProposerReward),
           state |-> st]
  ELSE [value |-> 0, state |-> st]

RECURSIVE proposerSlashingLoop(_, _, _)
proposerSlashingLoop(proposerSlashings, st, n) ==
  IF n = 0 THEN 0
  ELSE LET offendingProposerIndex == proposerSlashings[n].signedHeader1.message.proposerIndex
           offendingProposerBalance == st.validators[offendingProposerIndex].effectiveBalance
       IN proposerSlashingLoop(proposerSlashings, st, n - 1)
            + (offendingProposerBalance \div WHISTLEBLOWER_REWARD_QUOTIENT)

\* mutant: an offender named by several entries is counted once
ProposerSlashingRewardDeduplicates(blk, st) ==
  LET offenders == {blk.body.proposerSlashings[i].signedHeader1.message.proposerIndex :
                      i \in 1..Len(blk.body.proposerSlashings)}
      once == SortedSeq(offenders)
  IN [value |-> proposerSlashingLoop(
                  [i \in 1..Len(once) |->
                     [signedHeader1 |-> [message |-> [proposerIndex |-> once[i]]]]],
                  st, Len(once)),
      state |-> st]

\* mutant: the slashing is applied to the offenders' balances
ProposerSlashingRewardSlashes(blk, st) ==
  LET offenders == {blk.body.proposerSlashings[i].signedHeader1.message.proposerIndex :
                      i \in 1..Len(blk.body.proposerSlashings)}
  IN [value |-> proposerSlashingLoop(blk.body.proposerSlashings, st,
                                     Len(blk.body.proposerSlashings)),
      state |-> [st EXCEPT !.validators =
                   [v \in Validators |->
                      IF v \in offenders THEN [effectiveBalance |-> 0] ELSE @[v]]]]

computeBlockProposerSlashingReward(blk, st) ==
  [value |-> proposerSlashingLoop(blk.body.proposerSlashings, st,
                                  Len(blk.body.proposerSlashings)),
   state |-> st]

RECURSIVE attesterIndexLoop(_, _, _)
attesterIndexLoop(indices, st, n) ==
  IF n = 0 THEN 0
  ELSE LET offendingAttesterBalance == st.validators[indices[n]].effectiveBalance
       IN attesterIndexLoop(indices, st, n - 1)
            + (offendingAttesterBalance \div WHISTLEBLOWER_REWARD_QUOTIENT)

RECURSIVE attesterSlashingLoop(_, _, _)
attesterSlashingLoop(attesterSlashings, st, n) ==
  IF n = 0 THEN 0
  ELSE LET indices == getAttesterSlashableIndices(attesterSlashings[n])
       IN attesterSlashingLoop(attesterSlashings, st, n - 1)
            + attesterIndexLoop(indices, st, Len(indices))

\* mutant: the balances of a slashing are summed before the division
RECURSIVE attesterBalanceSum(_, _, _)
attesterBalanceSum(indices, st, n) ==
  IF n = 0 THEN 0
  ELSE attesterBalanceSum(indices, st, n - 1) + st.validators[indices[n]].effectiveBalance

RECURSIVE attesterSlashingLoopFloorsSum(_, _, _)
attesterSlashingLoopFloorsSum(attesterSlashings, st, n) ==
  IF n = 0 THEN 0
  ELSE LET indices == getAttesterSlashableIndices(attesterSlashings[n])
       IN attesterSlashingLoopFloorsSum(attesterSlashings, st, n - 1)
            + (attesterBalanceSum(indices, st, Len(indices)) \div WHISTLEBLOWER_REWARD_QUOTIENT)

AttesterSlashingRewardFloorsSum(blk, st) ==
  [value |-> attesterSlashingLoopFloorsSum(blk.body.attesterSlashings, st,
                                           Len(blk.body.attesterSlashings)),
   state |-> st]

computeBlockAttesterSlashingReward(blk, st) ==
  [value |-> attesterSlashingLoop(blk.body.attesterSlashings, st,
                                  Len(blk.body.attesterSlashings)),
   state |-> st]

\* mutant: the total leaves out the attester slashing reward
BlockRewardsTotalOmitsTerm(blk, attReward, syncReward, proposerSlReward, attesterSlReward) ==
  [proposerIndex |-> blk.proposerIndex,
   total |-> attReward + syncReward + proposerSlReward,
   attestations |-> attReward,
   syncAggregate |-> syncReward,
   proposerSlashings |-> proposerSlReward,
   attesterSlashings |-> attesterSlReward]

\* the aggregation and the returned object
BlockRewards(blk, attReward, syncReward, proposerSlReward, attesterSlReward) ==
  [proposerIndex |-> blk.proposerIndex,
   total |-> attReward + syncReward + proposerSlReward + attesterSlReward,
   attestations |-> attReward,
   syncAggregate |-> syncReward,
   proposerSlashings |-> proposerSlReward,
   attesterSlashings |-> attesterSlReward]

\* the statements of computeBlockRewards after the collaborator's write
computeBlockRewardsRest(blk, st) ==
  LET a == attestationRewardAltairReturn(st)
      s == computeSyncAggregateReward(blk, a.state)
      p == computeBlockProposerSlashingReward(blk, s.state)
      x == computeBlockAttesterSlashingReward(blk, p.state)
  IN [value |-> BlockRewards(blk, a.value, s.value, p.value, x.value),
      state |-> x.state]

\* mutant: the collaborator call is awaited
AwaitsCollaborator == {"processed"}

\* the points of computeBlockRewards at which the call awaits: there is no
\* await in the function or in the functions it calls
AwaitPoints == {}

\* ------------------------------------------------------------ the actions
InitCalls ==
  /\ thread = NoThread
  /\ pc = [c \in Calls |-> "idle"]
  /\ block = [c \in Calls |-> undefined]
  /\ result = [c \in Calls |-> undefined]
  /\ error = [c \in Calls |-> ""]

\* a call starts: fork dispatch, and on the Altair path the collaborator's
\* write to the accumulator; calls are numbered in the order they start
Invoke(c, Blocks) ==
  /\ pc[c] = "idle"
  /\ thread = NoThread
  /\ \A d \in Calls : d < c => pc[d] # "idle"
  /\ \E blk \in Blocks :
       LET r == blockAttestationRewardDispatch(blk, state)
       IN /\ state' = r.state
          /\ block' = [block EXCEPT ![c] = blk]
          /\ IF r.threw
             THEN /\ pc' = [pc EXCEPT ![c] = "rejected"]
                  /\ error' = [error EXCEPT ![c] = r.message]
                  /\ thread' = NoThread
             ELSE /\ pc' = [pc EXCEPT ![c] = "processed"]
                  /\ error' = error
                  /\ thread' = IF "processed" \in AwaitPoints THEN NoThread ELSE c
          /\ result' = result

\* the call runs to its return statement and the promise is fulfilled
Return(c) ==
  /\ pc[c] = "processed"
  /\ thread = IF "processed" \in AwaitPoints THEN NoThread ELSE c
  /\ LET r == computeBlockRewardsRest(block[c], state)
     IN /\ state' = r.state
        /\ result' = [result EXCEPT ![c] = r.value]
  /\ pc' = [pc EXCEPT ![c] = "fulfilled"]
  /\ thread' = NoThread
  /\ UNCHANGED <<block, error>>

\* two calls on one pre-state
SharedPreState ==
  [config |-> [ALTAIR_FORK_SLOT |-> AltairForkSlot],
   validators |-> [v \in Validators |-> [effectiveBalance |-> 300 + 700 * v]],
   epochCtx |-> [syncProposerReward |-> [num |-> 3, den |-> 2]],
   proposerRewards |-> [attestations |-> 0]]

Init ==
  /\ state = SharedPreState
  /\ InitCalls

Next ==
  \E c \in Calls :
    \/ Invoke(c, CallBlocks)
    \/ Return(c)

Spec == Init /\ [][Next]_vars

\* one call on each prepared pre-state, over the larger block domain
InitRewards ==
  /\ state \in PreStates
  /\ InitCalls

NextRewards ==
  \/ Invoke(1, RewardBlocks)
  \/ Return(1)

SpecRewards == InitRewards /\ [][NextRewards]_vars

\* ============================================================ properties
Fulfilled(c) == pc[c] = "fulfilled"
Rejected(c) == pc[c] = "rejected"
Started(c) == pc[c] # "idle"

Balance(v) == state.validators[v].effectiveBalance
Quotient(v) == Balance(v) \div WHISTLEBLOWER_REWARD_QUOTIENT

RECURSIVE SumOver(_, _)
\* the sum of f[x] over the finite set S
SumOver(f, S) ==
  IF S = {} THEN 0
  ELSE LET x == CHOOSE y \in S : TRUE IN f[x] + SumOver(f, S \ {x})

SetBits(c) ==
  {i \in DOMAIN block[c].body.syncAggregate.syncCommitteeBits :
     block[c].body.syncAggregate.syncCommitteeBits[i]}

\* the integer f with f <= r < f + 1
FloorOf(r) == CHOOSE f \in 0..r.num : f * r.den <= r.num /\ r.num < (f + 1) * r.den

\* the block carries no attestation, no slashing and no set sync-committee bit
EmptyBlock(c) ==
  /\ block[c].body.attestations = <<>>
  /\ block[c].body.proposerSlashings = <<>>
  /\ block[c].body.attesterSlashings = <<>>
  /\ block[c].body.syncAggregate # undefined => SetBits(c) = {}

\* the accumulator value the calls started before call c have left
AccruedBefore(c) ==
  SumOver([d \in Calls |-> IF pc[d] \in {"processed", "fulfilled"}
                           THEN SumSeq(block[d].body.attestations) ELSE 0],
          {d \in Calls : d < c})

\* ---------------------------------------------------------------------
\* C1: a call whose block's slot resolves to phase0 is rejected with the
\* unsupported-fork error and never has a BlockRewards result, whatever the
\* block body and the pre-state hold.
C1_Phase0Rejected ==
  \A c \in Calls :
    (Started(c) /\ getForkName(state.config, block[c].slot) = "phase0")
      => /\ Rejected(c)
         /\ error[c] = UnsupportedFork
         /\ result[c] = undefined

C1_Witness ==
  /\ Rejected(1)
  /\ getForkName(state.config, block[1].slot) = "phase0"
  /\ Len(block[1].body.attestations) = 2
  /\ Len(block[1].body.proposerSlashings) = 1
  /\ block[1].body.syncAggregate # undefined

\* C2: in every returned BlockRewards the total is the exact sum of the four
\* sub-rewards, and all five values are non-negative integers.
C2_TotalIsSum ==
  \A c \in Calls :
    Fulfilled(c) =>
      /\ result[c].total = result[c].attestations + result[c].syncAggregate
                             + result[c].proposerSlashings + result[c].attesterSlashings
      /\ {result[c].total, result[c].attestations, result[c].syncAggregate,
          result[c].proposerSlashings, result[c].attesterSlashings} \subseteq Nat

C2_Witness ==
  /\ Fulfilled(1)
  /\ result[1].attestations > 0
  /\ result[1].syncAggregate > 0
  /\ result[1].proposerSlashings > 0
  /\ result[1].attesterSlashings > 0

\* C3: the syncAggregate sub-reward is k * floor(r) for k set participation
\* bits and sync-proposer-reward r, and 0 when the body has no sync aggregate.
C3_SyncAggregateReward ==
  \A c \in Calls :
    Fulfilled(c) =>
      result[c].syncAggregate =
        IF block[c].body.syncAggregate = undefined THEN 0
        ELSE Cardinality(SetBits(c)) * FloorOf(state.epochCtx.syncProposerReward)

C3_Witness ==
  /\ Fulfilled(1)
  /\ block[1].body.syncAggregate # undefined
  /\ Cardinality(SetBits(1)) = 2
  /\ state.epochCtx.syncProposerReward = [num |-> 3, den |-> 2]
  /\ result[1].syncAggregate = 2

\* C4: the proposerSlashings sub-reward is the sum over the entries of
\* floor(B / WHISTLEBLOWER_REWARD_QUOTIENT) for the offender of the entry's
\* first signed header: each validator counts once per entry that names it,
\* in whatever order the entries come.
C4_ProposerSlashingReward ==
  \A c \in Calls :
    Fulfilled(c) =>
      LET entries == block[c].body.proposerSlashings
          times == [v \in Validators |->
                      Cardinality({i \in 1..Len(entries) :
                                     entries[i].signedHeader1.message.proposerIndex = v})]
      IN result[c].proposerSlashings =
           SumOver([v \in Validators |-> times[v] * Quotient(v)], Validators)

C4_Witness ==
  /\ Fulfilled(1)
  /\ Len(block[1].body.proposerSlashings) = 2
  /\ block[1].body.proposerSlashings[1] = block[1].body.proposerSlashings[2]
  /\ result[1].proposerSlashings = 2

\* C5: the attesterSlashings sub-reward is the sum, over every attester
\* slashing and every index the slashable-index utility returns for it, of
\* floor(Bi / WHISTLEBLOWER_REWARD_QUOTIENT): each quotient is floored before
\* the sum.
C5_AttesterSlashingReward ==
  \A c \in Calls :
    Fulfilled(c) =>
      LET slashings == block[c].body.attesterSlashings
          perSlashing ==
            [i \in 1..Len(slashings) |->
               LET indices == getAttesterSlashableIndices(slashings[i])
               IN SumOver([v \in Validators |-> Quotient(v)],
                          {indices[j] : j \in 1..Len(indices)})]
      IN result[c].attesterSlashings = SumOver(perSlashing, 1..Len(slashings))

C5_Witness ==
  /\ Fulfilled(1)
  /\ Len(block[1].body.attesterSlashings) = 1
  /\ Len(getAttesterSlashableIndices(block[1].body.attesterSlashings[1])) = 2
  /\ Balance(0) = 1000
  /\ Balance(1) = 300
  /\ result[1].attesterSlashings = 1
\* C6 as stated: a fulfilled call on a non-phase0 block without attestations,
\* set sync-committee bits and slashings returns total = 0 and four zero
\* sub-rewards.
C6_EmptyBlockAllZero ==
  \A c \in Calls :
    (Fulfilled(c) /\ EmptyBlock(c)) =>
      /\ result[c].total = 0
      /\ result[c].attestations = 0
      /\ result[c].syncAggregate = 0
      /\ result[c].proposerSlashings = 0
      /\ result[c].attesterSlashings = 0

\* C6 amended: for such a block the syncAggregate, proposerSlashings and
\* attesterSlashings sub-rewards are 0, and attestations and total are the
\* accumulator value the pre-state held when the call started: 0 on a
\* pre-state no earlier call has accrued a reward on.
C6_EmptyBlockReturnsAccumulator ==
  \A c \in Calls :
    (Fulfilled(c) /\ EmptyBlock(c)) =>
      /\ result[c].syncAggregate = 0
      /\ result[c].proposerSlashings = 0
      /\ result[c].attesterSlashings = 0
      /\ result[c].attestations = AccruedBefore(c)
      /\ result[c].total = AccruedBefore(c)
      /\ AccruedBefore(c) = 0 => result[c].total = 0

C6_Witness ==
  /\ Fulfilled(1)
  /\ EmptyBlock(1)
  /\ block[1].body.syncAggregate # undefined
  /\ result[1].total = 0

\* C7: when two calls on the same pre-state are fulfilled one after the
\* other, the attestations value of the later call is the attestations value
\* of the earlier call plus the reward of the later block's attestations, and
\* the accumulator is never reset.
C7_SecondCallCountsFirstAgain ==
  \A c \in Calls : \A d \in Calls :
    (d < c /\ Fulfilled(d) /\ Fulfilled(c)
       /\ \A e \in Calls : (d < e /\ e < c) => Rejected(e)) =>
      /\ result[c].attestations =
           result[d].attestations + SumSeq(block[c].body.attestations)
      /\ state.proposerRewards.attestations >= result[c].attestations

C7_Witness ==
  /\ Fulfilled(1)
  /\ Fulfilled(2)
  /\ result[1].attestations > 0
  /\ block[2].body.attestations # <<>>
  /\ result[2].attestations > SumSeq(block[2].body.attestations)

\* C8: no step of a call changes the validators, the sync-proposer-reward
\* constant, the fork schedule or the block of a started call, and the step
\* that runs the sync-aggregate, proposer-slashing and attester-slashing
\* calculators leaves the whole pre-state as it was.
C8_OnlyAccumulatorWritten ==
  [][/\ state'.validators = state.validators
     /\ state'.epochCtx = state.epochCtx
     /\ state'.config = state.config
     /\ \A c \in Calls : Started(c) => block'[c] = block[c]
     /\ \A c \in Calls :
          (pc[c] = "processed" /\ pc'[c] = "fulfilled") => state' = state]_vars

C8_Witness ==
  /\ Fulfilled(1)
  /\ state.proposerRewards.attestations > 0
  /\ Len(block[1].body.proposerSlashings) >= 1
  /\ Len(block[1].body.attesterSlashings) >= 1
  /\ block[1].body.syncAggregate # undefined

\* C9: at most one call is between the collaborator's write and the
\* read-back; while it is there the accumulator holds what the earlier calls
\* left plus what its own write added, and that is the attestations value the
\* call returns.
C9_WriteAndReadUninterrupted ==
  \A c \in Calls :
    /\ pc[c] = "processed" =>
         /\ \A d \in Calls \ {c} : pc[d] # "processed"
         /\ state.proposerRewards.attestations =
              AccruedBefore(c) + SumSeq(block[c].body.attestations)
    /\ Fulfilled(c) =>
         result[c].attestations =
           AccruedBefore(c) + SumSeq(block[c].body.attestations)

C9_Witness ==
  /\ Fulfilled(1)
  /\ pc[2] = "processed"
  /\ block[1].body.attestations # <<>>
  /\ block[2].body.attestations # <<>>

\* C10: the step that rejects a call for a phase0 block leaves the pre-state,
\* the accumulator included, and every result as they were.
C10_RejectionLeavesStateUntouched ==
  [][\A c \in Calls :
       (pc[c] = "idle" /\ pc'[c] = "rejected") =>
         (state' = state /\ result' = result)]_vars

C10_Witness ==
  /\ Fulfilled(1)
  /\ Rejected(2)
  /\ state.proposerRewards.attestations > 0
  /\ block[2].body.attestations # <<>>
====
